---- MODULE Spec2Model ----
(***************************************************************************)
(* A model of lb5.cpp: a Chain of Responsibility (Handler, FormatChecker,  *)
(* SecurityChecker), a Strategy context (DocumentProcessor) and a Visitor  *)
(* over a DocumentStructure, together with the demonstration in main().    *)
(*                                                                         *)
(* Heap objects are identified by small integers; 0 is the null pointer.   *)
(* std::cout is modelled by `out`: the lines written by the call that ran  *)
(* last (by the whole run in SpecMain).  A line carries, besides the text  *)
(* the code prints, the identity of the object that printed it, so that    *)
(* "which object was invoked, and how often" can be read off the output.   *)
(***************************************************************************)
EXTENDS Integers, Sequences, FiniteSets, TLC

\* ------------------------------------------------------------------ bounds
NumNodes == 3        \* handler objects that can be allocated
MaxStrategies == 3   \* strategy objects that can be allocated
MaxDocs == 3         \* document objects that can be allocated
MaxObjects == 2      \* objects built in all when the components run side by side

NULL == 0
NodeIds == 1..NumNodes
StrategyIds == 1..MaxStrategies
DocIds == 1..MaxDocs

\* The strings handed to handle / executeStrategy: the three recognized
\* types and strings that differ from them in case, length or content.
DocTypes == {"PDF", "TXT", "DOCX", "pdf", "", "XML"}

HandlerKinds == {"FormatChecker", "SecurityChecker"}
StrategyKinds == {"PrintStrategy", "SaveStrategy"}
DocumentKinds == {"PDFDocument", "TXTDocument"}
NoKind == "none"     \* the id names no allocated object

VARIABLES
  kind,       \* Handler objects: id -> dynamic type (NoKind: not allocated)
  next,       \* Handler::next: id -> successor id or NULL
  strategyKind,  \* ProcessingStrategy objects: id -> dynamic type
  strategyLive,  \* ProcessingStrategy objects not yet destroyed
  strategy,   \* DocumentProcessor::strategy: id or NULL
  docKind,    \* Document objects: id -> dynamic type
  docs,       \* DocumentStructure::docs: sequence of owned ids (NULL: released)
  added,      \* ghost: the arguments of the add calls, in call order
  lastSet,    \* ghost: the argument of the latest setStrategy call (NULL: none)
  noticed,    \* ghost: executeStrategy has found no strategy at least once
  op,         \* the call that ran last: [name, id, arg]
  done,       \* whether that call returned
  ret,        \* the bool it returned (handle)
  result,     \* the vector it returned (getAll)
  out,        \* the lines written to std::cout
  pc,         \* main(): the line to execute next
  docType,    \* main(): the local docType
  exitCode    \* main(): the value returned, -1 while running

vars == <<kind, next, strategyKind, strategyLive, strategy, docKind, docs, added,
          lastSet, noticed, op, done, ret, result, out, pc, docType, exitCode>>

chainVars == <<kind, next>>
strategyVars == <<strategyKind, strategyLive, strategy, lastSet, noticed>>
docVars == <<docKind, docs, added>>
mainVars == <<pc, docType, exitCode>>

Line(ev, id, arg) == [ev |-> ev, id |-> id, arg |-> arg]
Op(name, id, arg) == [name |-> name, id |-> id, arg |-> arg]
Outcome(d, r, o) == [done |-> d, ret |-> r, out |-> o]

\* ------------------------------------------------- Chain of Responsibility

\* Mutant of Recognized: the comparison ignores the case of "pdf".
Recognized_ignoringCase(t) == t = "PDF" \/ t = "pdf" \/ t = "TXT" \/ t = "DOCX"

\* lb5.cpp:58  docType == "PDF" || docType == "TXT" || docType == "DOCX"
Recognized(t) == t = "PDF" \/ t = "TXT" \/ t = "DOCX"

RECURSIVE Handler_handle(_, _, _)

\* `if (next) return next->handle(docType); return true;` after writing `pre`.
Delegate(n, t, seen, pre) ==
  IF next[n] # NULL
    THEN LET r == Handler_handle(next[n], t, seen \cup {n})
         IN  Outcome(r.done, r.ret, pre \o r.out)
    ELSE Outcome(TRUE, TRUE, pre)

\* Mutant of FormatChecker::handle: the `return false` is missing, so a
\* rejected type falls through to the successor.
FormatChecker_handle_fallsThrough(n, t, seen) ==
  LET checking == <<Line("[Chain] Checking format", n, t)>>
  IN  IF t = "PDF" \/ t = "TXT" \/ t = "DOCX"
        THEN Delegate(n, t, seen, checking)
        ELSE Delegate(n, t, seen, checking \o <<Line("Format not supported.", n, "")>>)

\* FormatChecker::handle
FormatChecker_handle(n, t, seen) ==
  LET checking == <<Line("[Chain] Checking format", n, t)>>
  IN  IF Recognized(t)
        THEN Delegate(n, t, seen, checking)
        ELSE Outcome(TRUE, FALSE, checking \o <<Line("Format not supported.", n, "")>>)

\* Mutant of SecurityChecker::handle: returns true without asking the successor.
SecurityChecker_handle_noDelegate(n, t, seen) ==
  Outcome(TRUE, TRUE, <<Line("[Chain] Security check passed", n, t)>>)

\* SecurityChecker::handle
SecurityChecker_handle(n, t, seen) ==
  Delegate(n, t, seen, <<Line("[Chain] Security check passed", n, t)>>)

\* The virtual call h->handle(t).  `seen` holds the nodes whose handle is on
\* the call stack: handle reads nothing but next and docType, so a call that
\* re-enters a node of `seen` recurses without end and never returns.
Handler_handle(n, t, seen) ==
  IF n \in seen
    THEN Outcome(FALSE, FALSE, <<>>)
    ELSE IF kind[n] = "FormatChecker"
           THEN FormatChecker_handle(n, t, seen)
           ELSE SecurityChecker_handle(n, t, seen)

Allocated == {n \in NodeIds : kind[n] # NoKind}

\* std::make_shared<FormatChecker>() / std::make_shared<SecurityChecker>()
MakeHandler(k) ==
  /\ done
  /\ \E n \in NodeIds :
       /\ kind[n] = NoKind
       /\ \A m \in NodeIds : m < n => kind[m] # NoKind
       /\ kind' = [kind EXCEPT ![n] = k]
       /\ op' = Op("make_shared", n, k)
  /\ out' = <<>>
  /\ UNCHANGED <<next, strategyVars, docVars, done, ret, result, mainVars>>

\* Handler::setNext
Handler_setNext(n, m) == [next EXCEPT ![n] = m]

SetNext(n, m) ==
  /\ done
  /\ n \in Allocated
  /\ m \in Allocated \cup {NULL}
  /\ next' = Handler_setNext(n, m)
  /\ op' = Op("setNext", n, "")
  /\ out' = <<>>
  /\ UNCHANGED <<kind, strategyVars, docVars, done, ret, result, mainVars>>

Handle(n, t) ==
  /\ done
  /\ n \in Allocated
  /\ \E r \in {Handler_handle(n, t, {})} :
       /\ done' = r.done
       /\ ret' = r.ret
       /\ out' = r.out
  /\ op' = Op("handle", n, t)
  /\ UNCHANGED <<chainVars, strategyVars, docVars, result, mainVars>>

\* ---------------------------------------------------------------- Strategy

\* PrintStrategy::process
PrintStrategy_process(s, t) == <<Line("[Strategy] Printing", s, t)>>

\* SaveStrategy::process
SaveStrategy_process(s, t) == <<Line("[Strategy] Saving", s, t)>>

\* The virtual call strategy->process(docType).
ProcessingStrategy_process(s, t) ==
  IF strategyKind[s] = "PrintStrategy"
    THEN PrintStrategy_process(s, t)
    ELSE SaveStrategy_process(s, t)

\* Mutant of setStrategy: a strategy already set is kept, the new one dropped.
DocumentProcessor_setStrategy_keepsFirst(s) ==
  IF strategy = NULL
    THEN [strategy |-> s, live |-> strategyLive \cup ({s} \ {NULL})]
    ELSE [strategy |-> strategy, live |-> strategyLive]

\* DocumentProcessor::setStrategy: `strategy = std::move(s)`.  The move
\* assignment of unique_ptr takes s over and deletes the object held before.
DocumentProcessor_setStrategy(s) ==
  [strategy |-> s, live |-> (strategyLive \ {strategy}) \cup ({s} \ {NULL})]

\* Mutant of executeStrategy: without a strategy nothing is written.
DocumentProcessor_executeStrategy_silent(t) ==
  IF strategy # NULL THEN ProcessingStrategy_process(strategy, t) ELSE <<>>

\* DocumentProcessor::executeStrategy: the lines written.
DocumentProcessor_executeStrategy(t) ==
  IF strategy # NULL
    THEN ProcessingStrategy_process(strategy, t)
    ELSE <<Line("No strategy selected.", NULL, "")>>

\* processor.setStrategy(std::make_unique<K>()) for K = k, or
\* processor.setStrategy(nullptr) for k = "nullptr".
SetStrategy(k) ==
  /\ done
  /\ \E s \in StrategyIds \cup {NULL} :
       /\ IF k = "nullptr"
            THEN s = NULL /\ UNCHANGED strategyKind
            ELSE /\ s # NULL
                 /\ strategyKind[s] = NoKind
                 /\ \A r \in StrategyIds : r < s => strategyKind[r] # NoKind
                 /\ strategyKind' = [strategyKind EXCEPT ![s] = k]
       /\ LET after == DocumentProcessor_setStrategy(s)
          IN  /\ strategy' = after.strategy
              /\ strategyLive' = after.live
       /\ lastSet' = s
       /\ op' = Op("setStrategy", s, k)
  /\ out' = <<>>
  /\ UNCHANGED <<noticed, chainVars, docVars, done, ret, result, mainVars>>

\* Mutant of the executeStrategy call: the strategy is moved out of the slot
\* and deleted after it ran.
ExecuteStrategy_consuming(t) ==
  /\ done
  /\ out' = DocumentProcessor_executeStrategy(t)
  /\ noticed' = (noticed \/ strategy = NULL)
  /\ op' = Op("executeStrategy", strategy, t)
  /\ strategy' = NULL
  /\ strategyLive' = strategyLive \ {strategy}
  /\ UNCHANGED <<strategyKind, lastSet, chainVars, docVars, done, ret, result, mainVars>>

ExecuteStrategy(t) ==
  /\ done
  /\ out' = DocumentProcessor_executeStrategy(t)
  /\ noticed' = (noticed \/ strategy = NULL)
  /\ op' = Op("executeStrategy", strategy, t)
  /\ UNCHANGED <<strategyKind, strategyLive, strategy, lastSet,
                 chainVars, docVars, done, ret, result, mainVars>>

\* ----------------------------------------------------------------- Visitor

\* DisplayVisitor::visit(PDFDocument&)
DisplayVisitor_visit_PDFDocument(d) == <<Line("[Visitor] Displaying PDF content.", d, "")>>

\* DisplayVisitor::visit(TXTDocument&)
DisplayVisitor_visit_TXTDocument(d) == <<Line("[Visitor] Displaying TXT content.", d, "")>>

\* PDFDocument::accept: v.visit(*this) with *this a PDFDocument
PDFDocument_accept(d) == DisplayVisitor_visit_PDFDocument(d)

\* TXTDocument::accept: v.visit(*this) with *this a TXTDocument
TXTDocument_accept(d) == DisplayVisitor_visit_TXTDocument(d)

\* The virtual call doc->accept(v).
Document_accept(d) ==
  IF docKind[d] = "PDFDocument" THEN PDFDocument_accept(d) ELSE TXTDocument_accept(d)

\* DocumentStructure::add: docs.push_back(std::move(doc))
DocumentStructure_add(d) == Append(docs, d)

RECURSIVE AcceptFrom(_)
\* The loop of DocumentStructure::process from position i on.
AcceptFrom(i) ==
  IF i > Len(docs) THEN <<>> ELSE Document_accept(docs[i]) \o AcceptFrom(i + 1)

\* Mutant of process: the loop stops after the first document.
DocumentStructure_process_firstOnly ==
  IF Len(docs) = 0 THEN <<>> ELSE Document_accept(docs[1])

\* DocumentStructure::process: for (auto& doc : docs) doc->accept(v);
DocumentStructure_process == AcceptFrom(1)

\* Mutant of getAll: the pointers come out in reverse order.
DocumentStructure_getAll_reversed == [i \in 1..Len(docs) |-> docs[Len(docs) + 1 - i]]

\* DocumentStructure::getAll: the raw pointers d.get(), in the order of docs
DocumentStructure_getAll == [i \in 1..Len(docs) |-> docs[i]]

\* structure.add(std::make_unique<K>()) for K = k.  The new object may lie at
\* any free address.  add is modelled for arguments that own a document.
Add(k) ==
  /\ done
  /\ \E d \in DocIds :
       /\ docKind[d] = NoKind
       /\ docKind' = [docKind EXCEPT ![d] = k]
       /\ docs' = DocumentStructure_add(d)
       /\ added' = Append(added, d)
       /\ op' = Op("add", d, k)
  /\ out' = <<>>
  /\ UNCHANGED <<chainVars, strategyVars, done, ret, result, mainVars>>

Process ==
  /\ done
  /\ out' = DocumentStructure_process
  /\ op' = Op("process", NULL, "")
  /\ UNCHANGED <<chainVars, strategyVars, docVars, done, ret, result, mainVars>>

GetAll ==
  /\ done
  /\ result' = DocumentStructure_getAll
  /\ out' = <<>>
  /\ op' = Op("getAll", NULL, "")
  /\ UNCHANGED <<chainVars, strategyVars, docVars, done, ret, mainVars>>

\* -------------------------------------------------------- specifications

InitObs ==
  /\ op = Op("none", 0, "")
  /\ done = TRUE
  /\ ret = FALSE
  /\ result = <<>>
  /\ out = <<>>

InitChain ==
  /\ kind = [n \in NodeIds |-> NoKind]
  /\ next = [n \in NodeIds |-> NULL]

InitStrategy ==
  /\ strategyKind = [s \in StrategyIds |-> NoKind]
  /\ strategyLive = {}
  /\ strategy = NULL
  /\ lastSet = NULL
  /\ noticed = FALSE

InitDocs ==
  /\ docKind = [d \in DocIds |-> NoKind]
  /\ docs = <<>>
  /\ added = <<>>

InitMain ==
  /\ pc = "idle"
  /\ docType = ""
  /\ exitCode = -1

Init == InitObs /\ InitChain /\ InitStrategy /\ InitDocs /\ InitMain

\* The chain: handlers are made and linked in any way, and handled.
NextChain ==
  \/ \E k \in HandlerKinds : MakeHandler(k)
  \/ \E n \in NodeIds, m \in NodeIds \cup {NULL} : SetNext(n, m)
  \/ \E n \in NodeIds, t \in DocTypes : Handle(n, t)

SpecChain == Init /\ [][NextChain]_vars

\* One DocumentProcessor: strategies are set and executed in any order.
NextStrategy ==
  \/ \E k \in StrategyKinds \cup {"nullptr"} : SetStrategy(k)
  \/ \E t \in DocTypes : ExecuteStrategy(t)

SpecStrategy == Init /\ [][NextStrategy]_vars

\* One DocumentStructure: documents are added, visited and listed.
NextDocs ==
  \/ \E k \in DocumentKinds : Add(k)
  \/ Process
  \/ GetAll

SpecDocs == Init /\ [][NextDocs]_vars

\* The three components side by side: at most MaxObjects objects are built
\* in all, and the calls of the components interleave in any order.
Objects ==
  Cardinality(Allocated)
    + Cardinality({s \in StrategyIds : strategyKind[s] # NoKind})
    + Cardinality({d \in DocIds : docKind[d] # NoKind})

AllMakeHandler(k) == Objects < MaxObjects /\ MakeHandler(k)
AllSetStrategy(k) == (k # "nullptr" => Objects < MaxObjects) /\ SetStrategy(k)
AllAdd(k) == Objects < MaxObjects /\ Add(k)

NextAll ==
  \/ \E k \in HandlerKinds : AllMakeHandler(k)
  \/ \E n \in NodeIds, m \in NodeIds \cup {NULL} : SetNext(n, m)
  \/ \E n \in NodeIds, t \in DocTypes : Handle(n, t)
  \/ \E k \in StrategyKinds \cup {"nullptr"} : AllSetStrategy(k)
  \/ \E t \in DocTypes : ExecuteStrategy(t)
  \/ \E k \in DocumentKinds : AllAdd(k)
  \/ Process
  \/ GetAll

SpecAll == Init /\ [][NextAll]_vars

\* -------------------------------------------------------------- main()
\* One action per statement of main(); pc names the line to run next.  `out`
\* accumulates over the run.  checker1 and checker2 are the first two
\* handler objects.  Line 151 initialises docType: the source writes "PDF",
\* the model draws the value from DocTypes.

checker1 == 1
checker2 == 2

Goto(l) == pc' = l

\* 147: std::shared_ptr<Handler> checker1 = std::make_shared<FormatChecker>();
Main147 ==
  /\ pc = "l147"
  /\ kind' = [kind EXCEPT ![checker1] = "FormatChecker"]
  /\ op' = Op("make_shared", checker1, "FormatChecker")
  /\ Goto("l148")
  /\ UNCHANGED <<next, strategyVars, docVars, done, ret, result, out, docType, exitCode>>

\* 148: std::shared_ptr<Handler> checker2 = std::make_shared<SecurityChecker>();
Main148 ==
  /\ pc = "l148"
  /\ kind' = [kind EXCEPT ![checker2] = "SecurityChecker"]
  /\ op' = Op("make_shared", checker2, "SecurityChecker")
  /\ Goto("l149")
  /\ UNCHANGED <<next, strategyVars, docVars, done, ret, result, out, docType, exitCode>>

\* 149: checker1->setNext(checker2);
Main149 ==
  /\ pc = "l149"
  /\ next' = Handler_setNext(checker1, checker2)
  /\ op' = Op("setNext", checker1, "")
  /\ Goto("l151")
  /\ UNCHANGED <<kind, strategyVars, docVars, done, ret, result, out, docType, exitCode>>

\* 151: std::string docType = ...;
Main151 ==
  /\ pc = "l151"
  /\ \E t \in DocTypes :
       /\ docType' = t
       /\ op' = Op("docType", NULL, t)
  /\ Goto("l153")
  /\ UNCHANGED <<chainVars, strategyVars, docVars, done, ret, result, out, exitCode>>

\* Mutant of line 153: the result of handle is ignored.
Main153_ignoresResult ==
  /\ pc = "l153"
  /\ LET r == Handler_handle(checker1, docType, {})
     IN  /\ done' = r.done
         /\ ret' = r.ret
         /\ out' = out \o r.out
  /\ pc' = "l155"
  /\ op' = Op("handle", checker1, docType)
  /\ UNCHANGED <<chainVars, strategyVars, docVars, result, docType, exitCode>>

\* 153: if (checker1->handle(docType)) {
Main153 ==
  /\ pc = "l153"
  /\ LET r == Handler_handle(checker1, docType, {})
     IN  /\ done' = r.done
         /\ ret' = r.ret
         /\ out' = out \o r.out
         /\ Goto(IF ~r.done THEN "hung" ELSE IF r.ret THEN "l155" ELSE "l160")
  /\ op' = Op("handle", checker1, docType)
  /\ UNCHANGED <<chainVars, strategyVars, docVars, result, docType, exitCode>>

\* 155: DocumentProcessor processor;
Main155 ==
  /\ pc = "l155"
  /\ strategy' = NULL
  /\ op' = Op("DocumentProcessor", NULL, "")
  /\ Goto("l156")
  /\ UNCHANGED <<strategyKind, strategyLive, lastSet, noticed, chainVars, docVars,
                 done, ret, result, out, docType, exitCode>>

\* 156: processor.setStrategy(std::make_unique<PrintStrategy>());
Main156 ==
  /\ pc = "l156"
  /\ \E s \in StrategyIds :
       /\ strategyKind[s] = NoKind
       /\ \A r \in StrategyIds : r < s => strategyKind[r] # NoKind
       /\ strategyKind' = [strategyKind EXCEPT ![s] = "PrintStrategy"]
       /\ LET after == DocumentProcessor_setStrategy(s)
          IN  /\ strategy' = after.strategy
              /\ strategyLive' = after.live
       /\ lastSet' = s
       /\ op' = Op("setStrategy", s, "PrintStrategy")
  /\ Goto("l157")
  /\ UNCHANGED <<noticed, chainVars, docVars, done, ret, result, out, docType, exitCode>>

\* 157: processor.executeStrategy(docType);
Main157 ==
  /\ pc = "l157"
  /\ out' = out \o DocumentProcessor_executeStrategy(docType)
  /\ noticed' = (noticed \/ strategy = NULL)
  /\ op' = Op("executeStrategy", strategy, docType)
  /\ Goto("l158")
  /\ UNCHANGED <<strategyKind, strategyLive, strategy, lastSet, chainVars, docVars,
                 done, ret, result, docType, exitCode>>

\* 158: } -- processor goes out of scope and deletes its strategy
Main158 ==
  /\ pc = "l158"
  /\ strategyLive' = strategyLive \ {strategy}
  /\ strategy' = NULL
  /\ op' = Op("~DocumentProcessor", NULL, "")
  /\ Goto("l160")
  /\ UNCHANGED <<strategyKind, lastSet, noticed, chainVars, docVars,
                 done, ret, result, out, docType, exitCode>>

\* 160: std::cout << "------------------------\n";
Main160 ==
  /\ pc = "l160"
  /\ out' = Append(out, Line("------------------------", NULL, ""))
  /\ op' = Op("separator", NULL, "")
  /\ Goto("l163")
  /\ UNCHANGED <<chainVars, strategyVars, docVars, done, ret, result, docType, exitCode>>

\* 163: DocumentStructure structure;
Main163 ==
  /\ pc = "l163"
  /\ docs' = <<>>
  /\ op' = Op("DocumentStructure", NULL, "")
  /\ Goto("l164")
  /\ UNCHANGED <<docKind, added, chainVars, strategyVars, done, ret, result, out,
                 docType, exitCode>>

\* structure.add(std::make_unique<K>()) in main, for K = k
MainAdd(k) ==
  \E d \in DocIds :
    /\ docKind[d] = NoKind
    /\ docKind' = [docKind EXCEPT ![d] = k]
    /\ docs' = DocumentStructure_add(d)
    /\ added' = Append(added, d)
    /\ op' = Op("add", d, k)

\* 164: structure.add(std::make_unique<PDFDocument>());
Main164 ==
  /\ pc = "l164"
  /\ MainAdd("PDFDocument")
  /\ Goto("l165")
  /\ UNCHANGED <<chainVars, strategyVars, done, ret, result, out, docType, exitCode>>

\* 165: structure.add(std::make_unique<TXTDocument>());
Main165 ==
  /\ pc = "l165"
  /\ MainAdd("TXTDocument")
  /\ Goto("l167")
  /\ UNCHANGED <<chainVars, strategyVars, done, ret, result, out, docType, exitCode>>

\* 167: DisplayVisitor visitor;
Main167 ==
  /\ pc = "l167"
  /\ op' = Op("DisplayVisitor", NULL, "")
  /\ Goto("l168")
  /\ UNCHANGED <<chainVars, strategyVars, docVars, done, ret, result, out,
                 docType, exitCode>>

\* 168: structure.process(visitor);
Main168 ==
  /\ pc = "l168"
  /\ out' = out \o DocumentStructure_process
  /\ op' = Op("process", NULL, "")
  /\ Goto("l170")
  /\ UNCHANGED <<chainVars, strategyVars, docVars, done, ret, result, docType, exitCode>>

\* 170: std::cout << "\n... Enter ...";
Main170 ==
  /\ pc = "l170"
  /\ out' = Append(out, Line("press Enter", NULL, ""))
  /\ op' = Op("prompt", NULL, "")
  /\ Goto("l171")
  /\ UNCHANGED <<chainVars, strategyVars, docVars, done, ret, result, docType, exitCode>>

\* What std::cin.get() may find on standard input: a newline, another
\* character, or the end of the input.
Inputs == {"newline", "char", "EOF"}

\* 171: std::cin.get();
Main171 ==
  /\ pc = "l171"
  /\ \E c \in Inputs : op' = Op("cin.get", NULL, c)
  /\ Goto("l173")
  /\ UNCHANGED <<chainVars, strategyVars, docVars, done, ret, result, out,
                 docType, exitCode>>

\* 173: return 0;
Main173 ==
  /\ pc = "l173"
  /\ exitCode' = 0
  /\ Goto("done")
  /\ UNCHANGED <<chainVars, strategyVars, docVars, op, done, ret, result, out, docType>>

InitDemo ==
  /\ InitObs /\ InitChain /\ InitStrategy /\ InitDocs
  /\ pc = "l147"
  /\ docType = ""
  /\ exitCode = -1

NextMain ==
  \/ Main147 \/ Main148 \/ Main149 \/ Main151 \/ Main153
  \/ Main155 \/ Main156 \/ Main157 \/ Main158
  \/ Main160 \/ Main163 \/ Main164 \/ Main165 \/ Main167 \/ Main168
  \/ Main170 \/ Main171 \/ Main173

SpecMain == InitDemo /\ [][NextMain]_vars

\* ---------------------------------------------- properties of the chain

RECURSIVE Walk(_, _)
\* The nodes a call on n can visit, in order: n, next[n], ... up to the
\* terminal node or the first node met twice.
Walk(n, seen) ==
  IF n = NULL \/ n \in seen THEN <<>> ELSE <<n>> \o Walk(next[n], seen \cup {n})

RECURSIVE EndsAtNull(_, _)
\* Following next from n reaches a node without successor (no cycle).
EndsAtNull(n, seen) ==
  IF n = NULL THEN TRUE
  ELSE IF n \in seen THEN FALSE
  ELSE EndsAtNull(next[n], seen \cup {n})

Acyclic(n) == EndsAtNull(n, {})

\* n heads the chain main() builds: a FormatChecker whose successor is a
\* SecurityChecker that has no successor.
DemoChain(n) ==
  /\ kind[n] = "FormatChecker"
  /\ next[n] # NULL
  /\ kind[next[n]] = "SecurityChecker"
  /\ next[next[n]] = NULL

Handled(n) == op.name = "handle" /\ op.id = n

\* C1: on the chain FormatChecker -> SecurityChecker, handle(t) returns, and
\* returns true exactly when t is "PDF", "TXT" or "DOCX" (exact equality).
C1_DemoChainAcceptsExactlyRecognized ==
  \A n \in NodeIds :
    Handled(n) /\ DemoChain(n) =>
      /\ done
      /\ ret = (op.arg \in {"PDF", "TXT", "DOCX"})

C1_Witness ==
  \E n \in NodeIds : Handled(n) /\ DemoChain(n) /\ op.arg = "pdf" /\ done /\ ~ret

\* C2: on the chain FormatChecker -> SecurityChecker, the FormatChecker's
\* check comes first; for an unrecognized type the SecurityChecker is not
\* invoked at all, for a recognized type it is invoked exactly once, after
\* the FormatChecker's check.
C2_FormatBeforeSecurity ==
  \A n \in NodeIds :
    Handled(n) /\ DemoChain(n) =>
      IF op.arg \in {"PDF", "TXT", "DOCX"}
        THEN out = << Line("[Chain] Checking format", n, op.arg),
                      Line("[Chain] Security check passed", next[n], op.arg) >>
        ELSE /\ Len(out) >= 1
             /\ out[1] = Line("[Chain] Checking format", n, op.arg)
             /\ \A i \in 1..Len(out) : out[i].ev # "[Chain] Security check passed"
             /\ ret = FALSE

C2_Witness ==
  \E n \in NodeIds :
    /\ Handled(n) /\ DemoChain(n) /\ op.arg = "XML"
    /\ out = << Line("[Chain] Checking format", n, "XML"),
                Line("Format not supported.", n, "") >>

\* C8: whatever setNext calls were made, no node reaches itself through the
\* successor links, and every handle call returns.
C8_NoCycleAndHandleReturns ==
  /\ \A n \in Allocated : Acyclic(n)
  /\ done

\* C9: on an acyclic chain of FormatCheckers and SecurityCheckers of any
\* order and length, handle returns; a node whose own check passes returns
\* its successor's result, or true without successor; a SecurityChecker's
\* check passes for every string; and the result is false exactly when the
\* chain holds a FormatChecker and the type is not recognized.
OwnCheckPasses(n, t) == kind[n] = "SecurityChecker" \/ t \in {"PDF", "TXT", "DOCX"}

C9_ChainResult ==
  \A n \in NodeIds :
    Handled(n) /\ Acyclic(n) =>
      LET t == op.arg
          path == Walk(n, {})
          hasFormat == \E i \in 1..Len(path) : kind[path[i]] = "FormatChecker"
      IN  /\ done
          /\ ret = ~(hasFormat /\ t \notin {"PDF", "TXT", "DOCX"})
          /\ OwnCheckPasses(n, t) =>
               ret = (IF next[n] = NULL THEN TRUE ELSE Handler_handle(next[n], t, {}).ret)
          /\ ~OwnCheckPasses(n, t) => ret = FALSE

C9_Witness ==
  \E n \in NodeIds :
    /\ Handled(n) /\ Acyclic(n) /\ op.arg = "XML"
    /\ kind[n] = "SecurityChecker"
    /\ next[n] # NULL /\ kind[next[n]] = "SecurityChecker"
    /\ next[next[n]] # NULL /\ kind[next[next[n]]] = "FormatChecker"
    /\ ~ret

C9_LoneSecurityWitness ==
  \E n \in NodeIds :
    Handled(n) /\ kind[n] = "SecurityChecker" /\ next[n] = NULL /\ op.arg = "XML" /\ ret

\* ------------------------------------------- properties of the strategy

StrategyLine(s, t) ==
  Line(IF strategyKind[s] = "PrintStrategy" THEN "[Strategy] Printing"
                                            ELSE "[Strategy] Saving", s, t)

\* C3: the processor holds at most one strategy, the one set last (the one
\* held before is deleted); executeStrategy(t), after a latest setStrategy
\* that passed a strategy s, invokes s.process(t) once and nothing else.
C3_LastSetStrategyRuns ==
  /\ strategyLive = {strategy} \ {NULL}
  /\ Cardinality(strategyLive) <= 1
  /\ op.name = "executeStrategy" /\ lastSet # NULL =>
       /\ done
       /\ out = <<StrategyLine(lastSet, op.arg)>>

C3_Witness ==
  /\ op.name = "executeStrategy"
  /\ lastSet = 3
  /\ strategyKind[1] = "PrintStrategy"
  /\ strategyKind[2] = "PrintStrategy"
  /\ strategyKind[3] = "SaveStrategy"
  /\ out = <<Line("[Strategy] Saving", 3, op.arg)>>

\* C4: executeStrategy on a processor without strategy writes the notice
\* "No strategy selected." and nothing else, invokes no strategy and
\* returns; a strategy set afterwards is invoked by the next executeStrategy.
C4_NoStrategyNotice ==
  /\ op.name = "executeStrategy" /\ strategy = NULL =>
       /\ done
       /\ noticed
       /\ out = <<Line("No strategy selected.", NULL, "")>>
  /\ op.name = "executeStrategy" /\ noticed /\ strategy # NULL =>
       /\ done
       /\ out = <<StrategyLine(strategy, op.arg)>>

C4_Witness ==
  /\ op.name = "executeStrategy"
  /\ noticed
  /\ strategy # NULL
  /\ out = <<StrategyLine(strategy, op.arg)>>

\* ------------------------------------------ properties of the collection

VisitLine(d) ==
  Line(IF docKind[d] = "PDFDocument" THEN "[Visitor] Displaying PDF content."
                                      ELSE "[Visitor] Displaying TXT content.", d, "")

\* C5: process invokes the visitor once per added document, in the order of
\* the add calls, each time on the branch of the document's kind; nothing is
\* skipped, and an empty collection gives no invocation.
C5_ProcessVisitsEachInOrder ==
  op.name = "process" =>
    /\ done
    /\ Len(out) = Len(added)
    /\ \A i \in 1..Len(added) : out[i] = VisitLine(added[i])

C5_Witness ==
  /\ op.name = "process"
  /\ Len(added) = 2
  /\ docKind[added[1]] = "PDFDocument"
  /\ docKind[added[2]] = "TXTDocument"
  /\ out = << Line("[Visitor] Displaying PDF content.", added[1], ""),
              Line("[Visitor] Displaying TXT content.", added[2], "") >>

\* C6: after N add calls getAll returns N pointers, the i-th to the document
\* of the i-th add call, and the collection still holds all N documents.
C6_GetAllInInsertionOrder ==
  op.name = "getAll" =>
    /\ done
    /\ Len(result) = Len(added)
    /\ \A i \in 1..Len(added) : result[i] = added[i] /\ result[i] # NULL
    /\ docs = added

C6_Witness ==
  /\ op.name = "getAll"
  /\ Len(added) = 3
  /\ added[1] > added[2]
  /\ docKind[added[1]] = docKind[added[3]]
  /\ result = added

\* ------------------------------------------------ properties of main()

IsStrategyLine(l) == l.ev \in {"[Strategy] Printing", "[Strategy] Saving"}

ChainLines(t) ==
  IF t \in {"PDF", "TXT", "DOCX"}
    THEN << Line("[Chain] Checking format", checker1, t),
            Line("[Chain] Security check passed", checker2, t) >>
    ELSE << Line("[Chain] Checking format", checker1, t),
            Line("Format not supported.", checker1, "") >>

\* C7: main() runs the chain first; the PrintStrategy runs once, after the
\* chain, exactly when the chain returned true; the collection [PDF, TXT]
\* is built and visited whatever the chain returned; main returns 0.
C7_DemoFlow ==
  /\ \A i \in 1..Len(out) :
       IsStrategyLine(out[i]) =>
         /\ ret
         /\ i = 3
         /\ out[i] = Line("[Strategy] Printing", lastSet, docType)
         /\ SubSeq(out, 1, 2) = ChainLines(docType)
  /\ pc = "done" =>
       /\ exitCode = 0
       /\ ret = (docType \in {"PDF", "TXT", "DOCX"})
       /\ Len(added) = 2
       /\ docs = added
       /\ docKind[added[1]] = "PDFDocument"
       /\ docKind[added[2]] = "TXTDocument"
       /\ out = ChainLines(docType)
                  \o (IF ret THEN <<Line("[Strategy] Printing", lastSet, docType)>>
                             ELSE <<>>)
                  \o << Line("------------------------", NULL, ""),
                        Line("[Visitor] Displaying PDF content.", added[1], ""),
                        Line("[Visitor] Displaying TXT content.", added[2], ""),
                        Line("press Enter", NULL, "") >>

C7_Witness ==
  /\ pc = "done"
  /\ docType = "XML"
  /\ exitCode = 0
  /\ ~ret
  /\ \A i \in 1..Len(out) : ~IsStrategyLine(out[i])
  /\ Len(out) = 6

\* ------------------------------------------------------ frame property

ReadOnlyCalls == {"handle", "executeStrategy", "process", "getAll"}

\* C10: handle, executeStrategy, process and getAll leave the successor
\* links, the strategy slot and the collection as they were, whatever calls
\* of the three components came before; so the same call made again in the
\* state it leaves gives the same result and the same lines.
C10_ReadOnlyCallsChangeNothing ==
  [][ op'.name \in ReadOnlyCalls =>
        /\ UNCHANGED <<kind, next>>
        /\ UNCHANGED <<strategyKind, strategyLive, strategy>>
        /\ UNCHANGED <<docKind, docs>>
        /\ op'.name = "handle" =>
             Outcome(done', ret', out') = (Handler_handle(op.id, op.arg, {}))'
        /\ op'.name = "executeStrategy" =>
             out' = (DocumentProcessor_executeStrategy(op.arg))'
        /\ op'.name = "process" => out' = DocumentStructure_process'
        /\ op'.name = "getAll" => result' = DocumentStructure_getAll'
    ]_vars

C10_Witness ==
  /\ op.name = "executeStrategy"
  /\ strategy # NULL
  /\ Len(docs) = 1
  /\ out = <<StrategyLine(strategy, op.arg)>>

====
